---- MODULE Spec2Model ----
(***************************************************************************)
(* GoHTTPProbe: the probe engine of internal/probe (Run, runSingleProbe,   *)
(* getMethods, getMethodsFromOptions, testMethod) as a state machine.      *)
(*                                                                         *)
(* Strings are sequences of byte values, so that trimming, upper-casing,   *)
(* splitting and sorting are computed as the Go code computes them.        *)
(***************************************************************************)
EXTENDS Integers, Sequences, FiniteSets, TLC

VARIABLES
    cli,            \* flag values of the command line that have no Config field
    cfg,            \* probe.Config of the run
    env,            \* the world outside the process: files, target server
    pc,             \* position of the goroutine running Run / runSingleProbe
    err,            \* error returned by runSingleProbe ("" = nil)
    urls,           \* Run's local urls, read from the input file
    attempted,      \* the URLs runSingleProbe was called with so far, in order
    returned,       \* the errors the finished calls of runSingleProbe returned
    session,        \* runSingleProbe's locals client, headers, cookies
    optionsMethods, \* getMethods' local optionsMethods
    optionsErr,     \* getMethods' local err after getMethodsFromOptions
    discoverySent,  \* number of OPTIONS discovery requests handed to client.Do
    catalog,        \* the slice returned by getMethods
    methods,        \* runSingleProbe's methods after the safe-mode branch
    spawned,        \* number of loop iterations of the dispatch loop so far
    wpc,            \* position of each worker goroutine
    semaphore,      \* number of elements in the semaphore channel
    mutexHolder,    \* worker holding resultsMutex, 0 when unlocked
    wres,           \* each worker's local outcome of client.Do / ReadAll
    attempts,       \* number of client.Do calls of each worker
    results,        \* the shared map results
    keys,           \* runSingleProbe's sorted slice methodNames
    wire,           \* the requests of the current call that went to the network
    stdout,         \* what the process printed: log lines and result tables
    stderr,         \* the error messages main printed
    exit,           \* exit code of the process, -1 while it runs
    files,          \* the files the process wrote: name -> content
    exports         \* the contents exportToJSON wrote so far, in order

vars == <<cli, cfg, env, pc, err, urls, attempted, returned, session,
          optionsMethods, optionsErr, discoverySent, catalog, methods, spawned,
          wpc, semaphore, mutexHolder, wres, attempts, results, keys, wire,
          stdout, stderr, exit, files, exports>>

\* the variables no step of a worker goroutine changes, besides the program
\* counter of the main goroutine and the catalog
outer == <<cli, urls, attempted, returned, session, keys, stderr, exit, files,
           exports>>

-----------------------------------------------------------------------------
(* Bounds of the model *)

\* largest value of --concurrent explored
MaxThreads == 2
\* largest number of raw lines of a wordlist file (catalog specification)
MaxLines == 2
\* largest number of comma-separated tokens of an Allow header (catalog specification)
MaxTokens == 2

-----------------------------------------------------------------------------
(* Strings *)

Min(a, b) == IF a <= b THEN a ELSE b

\* unicode.IsSpace on ASCII: \t \n \v \f \r and space
IsSpace(c) == c \in {9, 10, 11, 12, 13, 32}

RECURSIVE TrimLeft(_)
TrimLeft(s) ==
    IF s # <<>> /\ IsSpace(Head(s)) THEN TrimLeft(Tail(s)) ELSE s

RECURSIVE TrimRight(_)
TrimRight(s) ==
    IF s # <<>> /\ IsSpace(s[Len(s)]) THEN TrimRight(SubSeq(s, 1, Len(s) - 1)) ELSE s

\* strings.TrimSpace
TrimSpace(s) == TrimRight(TrimLeft(s))

\* strings.ToUpper on ASCII
ToUpper(s) == [i \in 1..Len(s) |-> IF s[i] \in 97..122 THEN s[i] - 32 ELSE s[i]]

\* strings.HasPrefix
HasPrefix(s, p) == Len(s) >= Len(p) /\ SubSeq(s, 1, Len(p)) = p

\* strings.Contains
Contains(s, p) ==
    \E i \in 1..(Len(s) - Len(p) + 1) : SubSeq(s, i, i + Len(p) - 1) = p

\* Go's < on strings: byte-wise lexicographic order
StrLess(a, b) ==
    \E i \in 1..(Min(Len(a), Len(b)) + 1) :
        /\ SubSeq(a, 1, i - 1) = SubSeq(b, 1, i - 1)
        /\ \/ i = Len(a) + 1 /\ i <= Len(b)
           \/ i <= Len(a) /\ i <= Len(b) /\ a[i] < b[i]

\* strings.Split(s, sep) for a one-byte separator: always at least one piece
RECURSIVE Split(_, _)
Split(s, sep) ==
    IF \A i \in 1..Len(s) : s[i] # sep
    THEN <<s>>
    ELSE LET k == CHOOSE i \in 1..Len(s) :
                      s[i] = sep /\ \A j \in 1..(i - 1) : s[j] # sep
         IN  <<SubSeq(s, 1, k - 1)>> \o Split(SubSeq(s, k + 1, Len(s)), sep)

\* sort.Strings: the permutation of ss in ascending order (equal strings keep
\* their order, which no caller can observe)
SortStrings(ss) ==
    LET Rank(i) == Cardinality({j \in 1..Len(ss) :
                       \/ StrLess(ss[j], ss[i])
                       \/ ss[j] = ss[i] /\ j < i}) + 1
    IN  [k \in 1..Len(ss) |-> ss[CHOOSE i \in 1..Len(ss) : Rank(i) = k]]

Range(seq) == {seq[i] : i \in 1..Len(seq)}

RECURSIVE Join(_, _)
Join(ss, sep) ==
    IF ss = <<>> THEN <<>>
    ELSE IF Len(ss) = 1 THEN Head(ss)
    ELSE Head(ss) \o <<sep>> \o Join(Tail(ss), sep)

\* all sequences over S of length at most n
RECURSIVE SeqsUpTo(_, _)
SeqsUpTo(S, n) ==
    IF n = 0 THEN {<<>>}
    ELSE LET shorter == SeqsUpTo(S, n - 1)
         IN  shorter \cup {Append(s, x) : s \in shorter, x \in S}

-----------------------------------------------------------------------------
(* Program constants *)

GET        == <<71, 69, 84>>
PUT        == <<80, 85, 84>>
BAMBOOZLE  == <<66, 65, 77, 66, 79, 79, 90, 76, 69>>
DELETE     == <<68, 69, 76, 69, 84, 69>>
COPY       == <<67, 79, 80, 89>>
PATCH      == <<80, 65, 84, 67, 72>>
UNCHECKOUT == <<85, 78, 67, 72, 69, 67, 75, 79, 85, 84>>

\* DefaultMethods: three entries of the built-in list, in the order of the
\* source (GET ... PUT ... BAMBOOZLE): one dangerous method, and a last entry
\* that sorts before the others, as in the source list.
DefaultMethods == <<GET, PUT, BAMBOOZLE>>

\* faulty variant of DangerousMethods: the PUT key is missing from the map
DangerousMethodsNoPut == {DELETE, COPY, PATCH, UNCHECKOUT}

\* DangerousMethods: the keys mapped to true
DangerousMethods == {DELETE, COPY, PUT, PATCH, UNCHECKOUT}

-----------------------------------------------------------------------------
(* Pure functions of the probe package *)

\* faulty variant of ReadLines: comment lines are not skipped
RECURSIVE ReadLinesKeepComments(_)
ReadLinesKeepComments(raw) ==
    IF raw = <<>> THEN <<>>
    ELSE LET line == TrimSpace(Head(raw))
         IN  IF line # <<>>
             THEN <<line>> \o ReadLinesKeepComments(Tail(raw))
             ELSE ReadLinesKeepComments(Tail(raw))

\* readLinesFromFile over the texts the scanner yields: trim each line, keep it
\* unless it is empty or starts with '#'
RECURSIVE ReadLines(_)
ReadLines(raw) ==
    IF raw = <<>> THEN <<>>
    ELSE LET line == TrimSpace(Head(raw))
         IN  IF line # <<>> /\ ~HasPrefix(line, <<35>>)
             THEN <<line>> \o ReadLines(Tail(raw))
             ELSE ReadLines(Tail(raw))

\* faulty variant of NormalizeLoop: entries already seen are kept
RECURSIVE NormalizeLoopKeepsSeen(_, _)
NormalizeLoopKeepsSeen(ms, seen) ==
    IF ms = <<>> THEN <<>>
    ELSE LET uppercase == ToUpper(TrimSpace(Head(ms)))
         IN  IF uppercase # <<>>
             THEN <<uppercase>> \o NormalizeLoopKeepsSeen(Tail(ms), seen)
             ELSE NormalizeLoopKeepsSeen(Tail(ms), seen)

\* the loop of getMethods over methods: uppercase, trim, drop empties and
\* entries already seen
RECURSIVE NormalizeLoop(_, _)
NormalizeLoop(ms, seen) ==
    IF ms = <<>> THEN <<>>
    ELSE LET uppercase == ToUpper(TrimSpace(Head(ms)))
         IN  IF uppercase # <<>> /\ uppercase \notin seen
             THEN <<uppercase>> \o NormalizeLoop(Tail(ms), seen \cup {uppercase})
             ELSE NormalizeLoop(Tail(ms), seen)

\* faulty variant of NormalizeMethods: the sort is missing
NormalizeNoSort(ms) == NormalizeLoop(ms, {})

\* the tail of getMethods: normalize, then sort.Strings
NormalizeMethods(ms) == SortStrings(NormalizeLoop(ms, {}))

\* faulty variant of SplitAllow: the loop stops one piece early
SplitAllowDropsLast(allow) ==
    LET parts == Split(allow, 44)
    IN  [i \in 1..(Len(parts) - 1) |-> TrimSpace(parts[i])]

\* the loop of getMethodsFromOptions over strings.Split(allow, ",")
SplitAllow(allow) ==
    LET parts == Split(allow, 44)
    IN  [i \in 1..Len(parts) |-> TrimSpace(parts[i])]

\* faulty variant of SafeFilter: break instead of continue at a dangerous method
RECURSIVE SafeFilterStops(_)
SafeFilterStops(ms) ==
    IF ms = <<>> THEN <<>>
    ELSE IF Head(ms) \notin DangerousMethods
         THEN <<Head(ms)>> \o SafeFilterStops(Tail(ms))
         ELSE <<>>

\* the safe-mode loop of runSingleProbe
RECURSIVE SafeFilter(_)
SafeFilter(ms) ==
    IF ms = <<>> THEN <<>>
    ELSE IF Head(ms) \notin DangerousMethods
         THEN <<Head(ms)>> \o SafeFilter(Tail(ms))
         ELSE SafeFilter(Tail(ms))

\* two checks of net/url's url.Parse: a URL with an ASCII control byte does not
\* parse, and a URL that starts with ':' has no protocol scheme
URLParses(u) ==
    /\ \A i \in 1..Len(u) : u[i] >= 32 /\ u[i] # 127
    /\ u # <<>> => u[1] # 58

\* net/http's validMethod (called by http.NewRequest): a non-empty token
IsTokenChar(c) ==
    \/ c \in 48..57 \/ c \in 65..90 \/ c \in 97..122
    \/ c \in {33, 35, 36, 37, 38, 39, 42, 43, 45, 46, 94, 95, 96, 124, 126}

ValidMethod(m) == m # <<>> /\ \A i \in 1..Len(m) : IsTokenChar(m[i])

\* http.NewRequest(method, targetURL, nil) returns a nil error
NewRequestOK(m, u) == ValidMethod(m) /\ URLParses(u)

\* the "://" of runSingleProbe's prefix test
SchemeSep == <<58, 47, 47>>
\* "https://"
HTTPSPrefix == <<104, 116, 116, 112, 115>> \o SchemeSep

\* "http://"
HTTPPrefix == <<104, 116, 116, 112>> \o SchemeSep

\* faulty variant of EffectiveURL: the prefix is http://
EffectiveURLPlain(u) ==
    IF u # <<>> /\ ~Contains(u, SchemeSep) THEN HTTPPrefix \o u ELSE u

\* runSingleProbe's first statement: the URL the run uses
EffectiveURL(u) ==
    IF u # <<>> /\ ~Contains(u, SchemeSep) THEN HTTPSPrefix \o u ELSE u

\* the test of runSingleProbe's first statement: the prefix is added
PrefixAdded(u) == u # <<>> /\ ~Contains(u, SchemeSep)

\* net/http's Transport serves the schemes http and https only
SupportedScheme(u) == HasPrefix(u, HTTPPrefix) \/ HasPrefix(u, HTTPSPrefix)

-----------------------------------------------------------------------------
(* Logger *)

\* Logger.log: the lines a call prints, given the Verbose and Quiet of c
Log(c, level, msg) ==
    IF level = "DEBUG" /\ ~c.Verbose THEN {}
    ELSE IF level # "DEBUG" /\ c.Quiet THEN {}
    ELSE {[level |-> level, msg |-> msg]}

-----------------------------------------------------------------------------
(* buildHTTPClient, parseHeaders, parseCookies *)

EmptyMap == [m \in {} |-> 0]

MapPut(map, k, v) ==
    [x \in (DOMAIN map) \cup {k} |-> IF x = k THEN v ELSE map[x]]

\* faulty variant of CheckRedirectSet: the hook is set when redirects are followed
CheckRedirectInverted(c) == c.FollowRedir

\* buildHTTPClient: client.CheckRedirect is set
CheckRedirectSet(c) == ~c.FollowRedir

\* faulty variant of BuildHTTPClient: the proxy URL is not checked
BuildHTTPClientAnyProxy(c) ==
    [err |-> "", CheckRedirect |-> CheckRedirectSet(c), Proxy |-> c.Proxy]

\* buildHTTPClient: the client, or the error of an unparsable proxy URL
BuildHTTPClient(c) ==
    IF c.Proxy # <<>> /\ ~URLParses(c.Proxy)
    THEN [err |-> "invalid proxy URL", CheckRedirect |-> FALSE, Proxy |-> <<>>]
    ELSE [err |-> "", CheckRedirect |-> CheckRedirectSet(c), Proxy |-> c.Proxy]

\* strings.SplitN(s, sep, 2) for a one-byte separator
SplitN2(s, sep) ==
    IF \A i \in 1..Len(s) : s[i] # sep
    THEN <<s>>
    ELSE LET k == CHOOSE i \in 1..Len(s) :
                      s[i] = sep /\ \A j \in 1..(i - 1) : s[j] # sep
         IN  <<SubSeq(s, 1, k - 1), SubSeq(s, k + 1, Len(s))>>

\* net/textproto's CanonicalMIMEHeaderKey: a key that is not a token is left
\* alone; in a token the first letter and every letter after '-' is made
\* upper case and every other letter lower case
CanonicalMIMEHeaderKey(k) ==
    IF \E i \in 1..Len(k) : ~IsTokenChar(k[i]) THEN k
    ELSE [i \in 1..Len(k) |->
             IF i = 1 \/ k[i - 1] = 45
             THEN (IF k[i] \in 97..122 THEN k[i] - 32 ELSE k[i])
             ELSE (IF k[i] \in 65..90 THEN k[i] + 32 ELSE k[i])]

\* http.Header.Add
HeaderAdd(h, key, value) ==
    LET k == CanonicalMIMEHeaderKey(key)
    IN  MapPut(h, k, IF k \in DOMAIN h THEN Append(h[k], value) ELSE <<value>>)

\* faulty variant of AddHeader: the value replaces the values of the name
AddHeaderSet(h, line) ==
    LET parts == SplitN2(line, 58)
    IN  IF Len(parts) # 2 THEN h
        ELSE MapPut(h, CanonicalMIMEHeaderKey(TrimSpace(parts[1])),
                    <<TrimSpace(parts[2])>>)

\* addHeader
AddHeader(h, line) ==
    LET parts == SplitN2(line, 58)
    IN  IF Len(parts) # 2 THEN h
        ELSE HeaderAdd(h, TrimSpace(parts[1]), TrimSpace(parts[2]))

RECURSIVE AddHeaders(_, _)
AddHeaders(h, lines) ==
    IF lines = <<>> THEN h ELSE AddHeaders(AddHeader(h, Head(lines)), Tail(lines))

\* the lines parseHeaders hands to addHeader for a flag that is no file: the
\* trimmed pieces between commas, or the flag itself
FlagTokens(flag) ==
    IF Contains(flag, <<44>>)
    THEN LET parts == Split(flag, 44)
         IN  [i \in 1..Len(parts) |-> TrimSpace(parts[i])]
    ELSE <<flag>>

\* the loop of parseHeaders over the flags; fs holds the files os.Stat finds
RECURSIVE ParseHeadersLoop(_, _, _)
ParseHeadersLoop(h, flags, fs) ==
    IF flags = <<>> THEN [headers |-> h, err |-> ""]
    ELSE LET flag == Head(flags)
         IN  IF flag \in DOMAIN fs
             THEN IF ~fs[flag].readable
                  THEN [headers |-> EmptyMap,
                        err |-> "failed to read headers from file"]
                  ELSE ParseHeadersLoop(AddHeaders(h, ReadLines(fs[flag].lines)),
                                        Tail(flags), fs)
             ELSE ParseHeadersLoop(AddHeaders(h, FlagTokens(flag)), Tail(flags), fs)

\* parseHeaders
ParseHeaders(flags, fs) == ParseHeadersLoop(EmptyMap, flags, fs)

\* addCookie
AddCookie(cookies, pair) ==
    LET parts == SplitN2(pair, 61)
    IN  IF Len(parts) # 2 THEN cookies
        ELSE MapPut(cookies, TrimSpace(parts[1]), TrimSpace(parts[2]))

RECURSIVE AddCookies(_, _)
AddCookies(cookies, pairs) ==
    IF pairs = <<>> THEN cookies
    ELSE AddCookies(AddCookie(cookies, Head(pairs)), Tail(pairs))

\* parseCookies
ParseCookies(cookieStr, fs) ==
    IF cookieStr = <<>> THEN [cookies |-> EmptyMap, err |-> ""]
    ELSE IF cookieStr \in DOMAIN fs
    THEN IF ~fs[cookieStr].readable
         THEN [cookies |-> EmptyMap, err |-> "failed to read cookies from file"]
         ELSE [cookies |-> AddCookies(EmptyMap, ReadLines(fs[cookieStr].lines)),
               err |-> ""]
    ELSE LET parts == Split(cookieStr, 59)
         IN  [cookies |-> AddCookies(EmptyMap,
                              [i \in 1..Len(parts) |-> TrimSpace(parts[i])]),
              err |-> ""]

\* "User-Agent"
UserAgentKey == <<85, 115, 101, 114, 45, 65, 103, 101, 110, 116>>
\* net/http's defaultUserAgent, "Go-http-client/1.1"
DefaultUserAgent == <<71, 111, 45, 104, 116, 116, 112, 45, 99, 108, 105, 101,
                      110, 116, 47, 49, 46, 49>>

\* the User-Agent net/http writes for a request with header h
UserAgentOf(h) ==
    IF UserAgentKey \in DOMAIN h THEN h[UserAgentKey][1] ELSE DefaultUserAgent

-----------------------------------------------------------------------------
(* The environment: what client.Do can return *)

\* outcome of one client.Do and of reading the body: err = "" is a nil error,
\* hops is the number of requests the client sent for it, size the length of
\* the response body, read and readErr the result of io.ReadAll
Failure(text) ==
    [err |-> text, status |-> 0, reason |-> "", size |-> 0, allow |-> <<>>,
     setCookie |-> <<>>,
     hops |-> IF text = "unsupported protocol scheme" THEN 0 ELSE 1,
     read |-> 0, readErr |-> ""]

\* the Set-Cookie header of every answer of the test server (createMockServer):
\* "test-cookie=test-value"
MockCookie == <<116, 101, 115, 116, 45, 99, 111, 111, 107, 105, 101, 61, 116,
                101, 115, 116, 45, 118, 97, 108, 117, 101>>

Response(status, reason, size, allow) ==
    [err |-> "", status |-> status, reason |-> reason, size |-> size,
     allow |-> allow, setCookie |-> MockCookie, hops |-> 1,
     read |-> 0, readErr |-> ""]

\* transport errors of an exchange with the target: a URL without http or
\* https scheme is refused by the client, a target that is down refuses every
\* connection, a target that is up may still let the request run into the
\* client's timeout
TransportFailures(e, url) ==
    IF ~SupportedScheme(url) THEN {Failure("unsupported protocol scheme")}
    ELSE IF e.target = "down" THEN {Failure("connection refused")}
    ELSE {Failure("Client.Timeout exceeded")}

\* the handler of the test server (createMockServer): 200 for the allowed
\* methods, 405 for the others, with a body naming the method
MockAllowed == {GET, <<80, 79, 83, 84>>, <<72, 69, 65, 68>>,
                <<79, 80, 84, 73, 79, 78, 83>>}

ProbeResponse(m) ==
    IF m \in MockAllowed
    THEN Response(200, "200 OK", Len(m) + 15, <<>>)
    ELSE Response(405, "405 Method Not Allowed", Len(m) + 19, <<>>)

\* net/http's redirectBehavior for a 302: the follow-up request is a GET,
\* or a HEAD when the first request was one
RedirectMethod(m) == IF m = <<72, 69, 65, 68>> THEN m ELSE GET

\* the answer client.Do returns for a request with method m to a server that
\* redirects every request with 302 to a page the test handler serves: the
\* 302 itself when the hook returns ErrUseLastResponse, otherwise the answer
\* to the follow-up request
RedirectedResponse(cl, m) ==
    IF cl.CheckRedirect
    THEN Response(302, "302 Found", 0, <<>>)
    ELSE [ProbeResponse(RedirectMethod(m)) EXCEPT !.hops = 2]

\* the answer of the target to the discovery request
DiscoveryResponse(e, cl) ==
    IF e.server = "redirect" THEN RedirectedResponse(cl, <<79, 80, 84, 73, 79, 78, 83>>)
    ELSE IF e.optStatus = 200
    THEN Response(200, "200 OK", 0, e.allow)
    ELSE Response(e.optStatus, "404 Not Found", 0, e.allow)

Answers(e, url) == SupportedScheme(url) /\ e.target # "down"

\* every outcome client.Do can have for the discovery request
DiscoveryOutcomes(e, cl, url) ==
    TransportFailures(e, url) \cup
    (IF Answers(e, url) THEN {DiscoveryResponse(e, cl)} ELSE {})

\* io.LimitReader(resp.Body, 1024*1024)
BodyCap == 1048576

\* the answer of a server that sends a body one byte longer than the cap
BigResponse == Response(200, "200 OK", BodyCap + 1, <<>>)

\* every outcome client.Do can have for a probe of method m
ProbeOutcomes(e, cl, url, m) ==
    TransportFailures(e, url) \cup
    (IF Answers(e, url)
     THEN {IF e.server = "redirect" THEN RedirectedResponse(cl, m)
           ELSE IF e.server = "big" THEN BigResponse
           ELSE ProbeResponse(m)}
     ELSE {})

-----------------------------------------------------------------------------
(* getMethodsFromOptions and getMethods *)

\* faulty variant of OptionsPreError: no discovery when a wordlist is configured
OptionsPreErrorSkipsWordlist(c) ==
    IF c.URL = <<>> \/ c.Wordlist # "" THEN "no URL provided for OPTIONS request"
    ELSE IF BuildHTTPClient(c).err # "" THEN BuildHTTPClient(c).err
    ELSE IF ~NewRequestOK(<<79, 80, 84, 73, 79, 78, 83>>, c.URL)
    THEN "net/url: invalid control character in URL"
    ELSE ""

\* getMethodsFromOptions up to client.Do: "" when the request is sent
OptionsPreError(c) ==
    IF c.URL = <<>> THEN "no URL provided for OPTIONS request"
    ELSE IF BuildHTTPClient(c).err # "" THEN BuildHTTPClient(c).err
    ELSE IF ~NewRequestOK(<<79, 80, 84, 73, 79, 78, 83>>, c.URL)
    THEN "net/url: invalid control character in URL"
    ELSE ""

\* the lines getMethodsFromOptions and, after its return, getMethods log for
\* outcome x of the discovery request; sent tells that client.Do was called
OptionsLog(c, x, sent) ==
    Log(c, "DEBUG", "Sending OPTIONS request to discover supported methods")
    \cup (IF sent THEN Log(c, "DEBUG", "Sending OPTIONS request with timeout") ELSE {})
    \cup (IF x.err # ""
          THEN Log(c, "-", "Failed to get methods from OPTIONS request")
          ELSE IF x.status # 200
          THEN Log(c, "DEBUG", "OPTIONS request returned status code")
          ELSE IF x.allow = <<>>
          THEN Log(c, "DEBUG", "OPTIONS request did not return Allow header")
          ELSE Log(c, "*", "Server supports the following methods")
               \cup Log(c, "*", "Added methods from OPTIONS response"))

\* faulty variant of OptionsResult: the status check is missing
OptionsResultAnyStatus(x) ==
    IF x.err # "" THEN [methods |-> <<>>, err |-> x.err]
    ELSE IF x.allow = <<>> THEN [methods |-> <<>>, err |-> ""]
    ELSE [methods |-> SplitAllow(x.allow), err |-> ""]

\* getMethodsFromOptions after client.Do returned outcome x: (methods, err)
OptionsResult(x) ==
    IF x.err # "" THEN [methods |-> <<>>, err |-> x.err]
    ELSE IF x.status # 200 THEN [methods |-> <<>>, err |-> ""]
    ELSE IF x.allow = <<>> THEN [methods |-> <<>>, err |-> ""]
    ELSE [methods |-> SplitAllow(x.allow), err |-> ""]

\* getMethods between the wordlist and the OPTIONS request: the working list
WorkingList(c, e) ==
    IF c.Wordlist # "" THEN DefaultMethods \o ReadLines(e.wordlist.lines)
    ELSE DefaultMethods

\* getMethods after getMethodsFromOptions returned r: the returned slice
GetMethodsReturn(working, r) ==
    IF r.err = "" /\ Len(r.methods) > 0
    THEN NormalizeMethods(working \o r.methods)
    ELSE NormalizeMethods(working)

-----------------------------------------------------------------------------
(* The goroutine of runSingleProbe, up to the dispatch loop *)

\* runSingleProbe's locals before their assignment
NoSession ==
    [client |-> [err |-> "", CheckRedirect |-> FALSE, Proxy |-> <<>>],
     headers |-> EmptyMap, cookies |-> EmptyMap]

\* the variables before any statement of the program ran, with flags f,
\* configuration c and world e
Fresh(f, c, e) ==
    /\ cli = f
    /\ cfg = c
    /\ env = e
    /\ err = ""
    /\ urls = <<>>
    /\ returned = <<>>
    /\ session = NoSession
    /\ optionsMethods = <<>>
    /\ optionsErr = ""
    /\ discoverySent = 0
    /\ catalog = <<>>
    /\ methods = <<>>
    /\ spawned = 0
    /\ wpc = <<>>
    /\ semaphore = 0
    /\ mutexHolder = 0
    /\ wres = <<>>
    /\ attempts = <<>>
    /\ results = EmptyMap
    /\ keys = <<>>
    /\ wire = {}
    /\ stdout = {}
    /\ stderr = <<>>
    /\ exit = -1
    /\ files = EmptyMap
    /\ exports = <<>>

\* the state at a call of runSingleProbe with configuration c
InitRun(f, c, e) == Fresh(f, c, e) /\ pc = "start" /\ attempted = <<c.URL>>

\* the state at the call of Run with configuration c
InitMain(f, c, e) == Fresh(f, c, e) /\ pc = "run" /\ attempted = <<>>

\* runSingleProbe from its entry to the call of getMethods: the https://
\* prefix, buildHTTPClient, parseHeaders, parseCookies; the first error ends
\* the call
Start ==
    /\ pc = "start"
    /\ cfg' = [cfg EXCEPT !.URL = EffectiveURL(cfg.URL)]
    /\ stdout' = stdout \cup
                 (IF PrefixAdded(cfg.URL)
                  THEN Log(cfg, "DEBUG", "Added https:// prefix to URL") ELSE {})
    /\ LET cl == BuildHTTPClient(cfg)
           h  == ParseHeaders(cfg.Headers, env.files)
           ck == ParseCookies(cfg.Cookies, env.files)
       IN  IF cl.err # ""
           THEN /\ err' = "failed to build HTTP client: invalid proxy URL"
                /\ pc' = "returned"
                /\ UNCHANGED session
           ELSE IF h.err # ""
           THEN /\ err' = "failed to parse headers: failed to read headers from file"
                /\ pc' = "returned"
                /\ UNCHANGED session
           ELSE IF ck.err # ""
           THEN /\ err' = "failed to parse cookies: failed to read cookies from file"
                /\ pc' = "returned"
                /\ UNCHANGED session
           ELSE /\ session' = [client |-> cl, headers |-> h.headers,
                                cookies |-> ck.cookies]
                /\ pc' = "wordlist"
                /\ UNCHANGED err
    /\ UNCHANGED <<cli, env, urls, attempted, returned, optionsMethods, optionsErr,
                   discoverySent, catalog, methods, spawned, wpc, semaphore,
                   mutexHolder, wres, attempts, results, keys, wire, stderr, exit,
                   files, exports>>

\* getMethods up to the OPTIONS request: defaults, then the wordlist; an
\* unreadable wordlist makes getMethods and runSingleProbe return the error
ReadWordlist ==
    /\ pc = "wordlist"
    /\ IF cfg.Wordlist # "" /\ ~env.wordlist.readable
       THEN /\ err' = "failed to get methods: failed to read wordlist"
            /\ pc' = "returned"
            /\ stdout' = stdout \cup Log(cfg, "DEBUG", "Using default HTTP methods")
            /\ UNCHANGED catalog
       ELSE /\ catalog' = WorkingList(cfg, env)
            /\ pc' = "options"
            /\ stdout' = stdout
                   \cup Log(cfg, "DEBUG", "Using default HTTP methods")
                   \cup (IF cfg.Wordlist # ""
                         THEN Log(cfg, "*", "Added methods from wordlist") ELSE {})
            /\ UNCHANGED err
    /\ UNCHANGED <<cli, cfg, env, urls, attempted, returned, session,
                   optionsMethods, optionsErr, discoverySent, methods, spawned, wpc,
                   semaphore, mutexHolder, wres, attempts, results, keys, wire,
                   stderr, exit, files, exports>>

\* getMethods from the call of getMethodsFromOptions to its return: the
\* discovery request, the merge, the normalization and the sort
Discover ==
    /\ pc = "options"
    /\ LET sent == OptionsPreError(cfg) = ""
       IN  /\ \E x \in (IF sent
                         THEN DiscoveryOutcomes(env, BuildHTTPClient(cfg), cfg.URL)
                         ELSE {Failure(OptionsPreError(cfg))}) :
                  LET r == OptionsResult(x)
                  IN  /\ optionsMethods' = r.methods
                      /\ optionsErr' = r.err
                      /\ catalog' = GetMethodsReturn(catalog, r)
                      /\ stdout' = stdout \cup OptionsLog(cfg, x, sent)
           /\ discoverySent' = IF sent THEN discoverySent + 1 ELSE discoverySent
           /\ wire' = IF sent /\ SupportedScheme(cfg.URL)
                      THEN wire \cup {[method |-> <<79, 80, 84, 73, 79, 78, 83>>,
                                       url |-> cfg.URL, ua |-> DefaultUserAgent,
                                       discovery |-> TRUE]}
                      ELSE wire
    /\ pc' = "filter"
    /\ UNCHANGED <<cli, cfg, env, err, urls, attempted, returned, session, methods,
                   spawned, wpc, semaphore, mutexHolder, wres, attempts, results,
                   keys, stderr, exit, files, exports>>

\* faulty variant of FilteredMethods: the filter runs in every mode
FilteredMethodsAlways(c, cat) == SafeFilter(cat)

\* runSingleProbe's methods after the safe-mode branch, for the catalog cat
FilteredMethods(c, cat) == IF c.SafeOnly THEN SafeFilter(cat) ELSE cat

\* the safe-mode branch of runSingleProbe and the declarations before the
\* dispatch loop: a fresh results map, wait group, mutex and channel;
\* make(chan struct{}, n) panics for a negative n and the process dies
Filter ==
    /\ pc = "filter"
    /\ LET ms == FilteredMethods(cfg, catalog)
       IN  /\ methods' = ms
           /\ wpc' = [i \in 1..Len(ms) |-> "idle"]
           /\ wres' = [i \in 1..Len(ms) |-> Failure("")]
           /\ attempts' = [i \in 1..Len(ms) |-> 0]
    /\ stdout' = stdout \cup
           (IF cfg.SafeOnly
            THEN Log(cfg, "*", "Safe mode enabled, testing only non-dangerous methods")
            ELSE Log(cfg, "-", "Testing includes potentially dangerous HTTP methods (PUT, DELETE, etc.)")
                 \cup Log(cfg, "-", "Use --safe-only to exclude them"))
    /\ results' = EmptyMap
    /\ spawned' = 0
    /\ semaphore' = 0
    /\ mutexHolder' = 0
    /\ pc' = IF cfg.Threads < 0 THEN "panic" ELSE "dispatch"
    /\ exit' = IF cfg.Threads < 0 THEN 2 ELSE exit
    /\ UNCHANGED <<cli, cfg, env, err, urls, attempted, returned, session,
                   optionsMethods, optionsErr, discoverySent, catalog, keys, wire,
                   stderr, files, exports>>

\* the part of runSingleProbe that builds the catalog
CatalogNext == Start \/ ReadWordlist \/ Discover \/ Filter

-----------------------------------------------------------------------------
(* Inputs of the catalog specification *)

\* raw lines of a wordlist file: " put ", "#c", "", "Zap", " #d"
RawLines == {<<32, 112, 117, 116, 32>>, <<35, 99>>, <<>>, <<90, 97, 112>>,
             <<32, 35, 100>>}

\* tokens of an Allow header: " patch", "", "Foo"
RawTokens == {<<32, 112, 97, 116, 99, 104>>, <<>>, <<70, 111, 111>>}

\* "http://t", "t", "", "http://" followed by DEL
URLScheme == HTTPPrefix \o <<116>>
URLBare   == <<116>>
URLEmpty  == <<>>
URLBad    == HTTPPrefix \o <<127>>

\* record base with the fields of record over replaced
With(base, over) ==
    [k \in DOMAIN base |-> IF k \in DOMAIN over THEN over[k] ELSE base[k]]

NoFile == [readable |-> FALSE, lines |-> <<>>]

\* the configuration the flags' defaults give, with one worker slot, for the
\* URL "t"
DefaultConfig ==
    [URL |-> URLBare, Verbose |-> FALSE, Quiet |-> FALSE, FollowRedir |-> FALSE,
     SafeOnly |-> FALSE, Wordlist |-> "", Threads |-> 1, JSONFile |-> "",
     Proxy |-> <<>>, Cookies |-> <<>>, Headers |-> <<>>, InputFile |-> "",
     CookieJar |-> ""]

\* no --user-agent flag
DefaultFlags == [userAgent |-> <<>>]

\* a world with the test server up and no file
DefaultEnv ==
    [wordlist |-> NoFile, inputFile |-> NoFile, files |-> EmptyMap,
     jsonWritable |-> TRUE, target |-> "up", server |-> "mock",
     optStatus |-> 404, allow |-> <<>>]

WordlistFiles(lineSets, n) ==
    {[readable |-> TRUE, lines |-> l] : l \in SeqsUpTo(lineSets, n)}
    \cup {NoFile}

AllowHeaders(tokens, n) == {Join(t, 44) : t \in SeqsUpTo(tokens, n)}

CatalogConfigs ==
    [URL : {URLScheme, URLEmpty, URLBad}, SafeOnly : BOOLEAN,
     Wordlist : {"", "methods.txt"}, Threads : {1}]

CatalogEnvs ==
    {e \in [wordlist : WordlistFiles(RawLines, MaxLines),
            target : {"up", "down"}, optStatus : {200, 404},
            allow : AllowHeaders(RawTokens, MaxTokens)] :
        \* a target that is down is one case
        e.target = "down" => e.allow = <<>> /\ e.optStatus = 404}

CatalogInit ==
    \E c \in CatalogConfigs, e \in CatalogEnvs :
        \* without a wordlist option the file does not matter
        /\ c.Wordlist = "" => e.wordlist = NoFile
        \* an empty or unparsable URL never reaches the target
        /\ c.URL # URLScheme => e.target = "down" /\ e.optStatus = 404
        /\ InitRun(DefaultFlags, With(DefaultConfig, c), With(DefaultEnv, e))

CatalogSpec == CatalogInit /\ [][CatalogNext]_vars

-----------------------------------------------------------------------------
(* Inputs of the header specification *)

\* largest number of --header flags (header specification)
MaxFlags == 2

\* header flags that are no files: "x-a: 1", "X-A:2,nc", " x-a :3, b:4", "nc",
\* "a b: 5", "k:v:w", ": v"
HeaderFlags ==
    {<<120, 45, 97, 58, 32, 49>>,
     <<88, 45, 65, 58, 50, 44, 110, 99>>,
     <<32, 120, 45, 97, 32, 58, 51, 44, 32, 98, 58, 52>>,
     <<110, 99>>,
     <<97, 32, 98, 58, 32, 53>>,
     <<107, 58, 118, 58, 119>>,
     <<58, 32, 118>>}

HeaderInit ==
    \E h \in SeqsUpTo(HeaderFlags, MaxFlags) :
        InitRun(DefaultFlags, With(DefaultConfig, [Headers |-> h]), DefaultEnv)

\* runSingleProbe up to the call of getMethods, for the header flags
HeaderSpec == HeaderInit /\ [][Start]_vars

-----------------------------------------------------------------------------
(* The dispatch loop and the worker goroutines *)

\* faulty variant of BodyReads: the body is read without the LimitReader
BodyReadsNoLimit(e, x) == {[read |-> x.size, readErr |-> ""]}

\* every result io.ReadAll can have for the body of response x: the body up
\* to the cap, or, when the client's timeout ends the read of a long body,
\* the part read so far and the error
BodyReads(e, x) ==
    {[read |-> Min(x.size, BodyCap), readErr |-> ""]}
    \cup (IF e.server = "big"
          THEN {[read |-> BodyCap \div 2, readErr |-> "Client.Timeout exceeded"]}
          ELSE {})

Workers == 1..Len(methods)

\* faulty variant of ResultOf: the error text is not stored
ResultOfNoReason(x) ==
    IF x.err # ""
    THEN [StatusCode |-> 0, Length |-> 0, Reason |-> ""]
    ELSE [StatusCode |-> x.status, Length |-> x.read, Reason |-> x.reason]

\* the Result testMethod stores for outcome x of its worker
ResultOf(x) ==
    IF x.err # ""
    THEN [StatusCode |-> 0, Length |-> 0, Reason |-> x.err]
    ELSE [StatusCode |-> x.status, Length |-> x.read, Reason |-> x.reason]

\* one iteration of the dispatch loop: wg.Add(1) and the go statement
Spawn ==
    /\ pc = "dispatch"
    /\ spawned < Len(methods)
    /\ spawned' = spawned + 1
    /\ wpc' = [wpc EXCEPT ![spawned + 1] = "acquire"]
    /\ UNCHANGED <<cfg, env, pc, err, optionsMethods, optionsErr, discoverySent,
                   catalog, methods, semaphore, mutexHolder, wres, attempts, results>>
    /\ UNCHANGED <<outer, wire, stdout>>

\* faulty variant of Acquire: the send on the channel never blocks
AcquireNoLimit(w) ==
    /\ wpc[w] = "acquire"
    /\ semaphore' = semaphore + 1
    /\ wpc' = [wpc EXCEPT ![w] = "testMethod"]
    /\ UNCHANGED <<cfg, env, pc, err, optionsMethods, optionsErr, discoverySent,
                   catalog, methods, spawned, mutexHolder, wres, attempts, results>>
    /\ UNCHANGED <<outer, wire, stdout>>

\* semaphore <- struct{}{}: blocks while the channel holds cap elements
Acquire(w) ==
    /\ wpc[w] = "acquire"
    /\ semaphore < cfg.Threads
    /\ semaphore' = semaphore + 1
    /\ wpc' = [wpc EXCEPT ![w] = "testMethod"]
    /\ UNCHANGED <<cfg, env, pc, err, optionsMethods, optionsErr, discoverySent,
                   catalog, methods, spawned, mutexHolder, wres, attempts, results>>
    /\ UNCHANGED <<outer, wire, stdout>>

\* faulty variant of SendRequest: the receive from the channel is not
\* deferred, so the early return of testMethod skips it
SendRequestNoDefer(w) ==
    /\ wpc[w] = "testMethod"
    /\ IF NewRequestOK(methods[w], cfg.URL)
       THEN /\ attempts' = [attempts EXCEPT ![w] = @ + 1]
            /\ wpc' = [wpc EXCEPT ![w] = "inflight"]
            /\ stdout' = stdout \cup Log(cfg, "DEBUG", "Testing method")
            /\ wire' = IF SupportedScheme(cfg.URL)
                       THEN wire \cup {[method |-> methods[w], url |-> cfg.URL,
                                        ua |-> UserAgentOf(session.headers),
                                        discovery |-> FALSE]}
                       ELSE wire
       ELSE /\ wpc' = [wpc EXCEPT ![w] = "wgDone"]
            /\ stdout' = stdout \cup
                   Log(cfg, "DEBUG", "Failed to create request for method")
            /\ UNCHANGED <<attempts, wire>>
    /\ UNCHANGED <<cfg, env, pc, err, optionsMethods, optionsErr, discoverySent,
                   catalog, methods, spawned, semaphore, mutexHolder, wres, results>>
    /\ UNCHANGED outer

\* testMethod up to client.Do: a request that cannot be built is logged and
\* the function returns; otherwise the headers and cookies are added and the
\* request is handed to the client
SendRequest(w) ==
    /\ wpc[w] = "testMethod"
    /\ IF NewRequestOK(methods[w], cfg.URL)
       THEN /\ attempts' = [attempts EXCEPT ![w] = @ + 1]
            /\ wpc' = [wpc EXCEPT ![w] = "inflight"]
            /\ stdout' = stdout \cup Log(cfg, "DEBUG", "Testing method")
            /\ wire' = IF SupportedScheme(cfg.URL)
                       THEN wire \cup {[method |-> methods[w], url |-> cfg.URL,
                                        ua |-> UserAgentOf(session.headers),
                                        discovery |-> FALSE]}
                       ELSE wire
       ELSE /\ wpc' = [wpc EXCEPT ![w] = "release"]
            /\ stdout' = stdout \cup
                   Log(cfg, "DEBUG", "Failed to create request for method")
            /\ UNCHANGED <<attempts, wire>>
    /\ UNCHANGED <<cfg, env, pc, err, optionsMethods, optionsErr, discoverySent,
                   catalog, methods, spawned, semaphore, mutexHolder, wres, results>>
    /\ UNCHANGED outer

\* faulty variant of Receive: a transport error returns without storing a result
ReceiveDropsFailure(w) ==
    /\ wpc[w] = "inflight"
    /\ \E x \in ProbeOutcomes(env, session.client, cfg.URL, methods[w]) :
          /\ wres' = [wres EXCEPT ![w] = x]
          /\ wpc' = [wpc EXCEPT ![w] = IF x.err # "" THEN "release" ELSE "readBody"]
          /\ stdout' = stdout \cup
                 (IF x.err # "" THEN Log(cfg, "DEBUG", "Request failed for method")
                  ELSE {})
    /\ UNCHANGED <<cfg, env, pc, err, optionsMethods, optionsErr, discoverySent,
                   catalog, methods, spawned, semaphore, mutexHolder, attempts,
                   results>>
    /\ UNCHANGED <<outer, wire>>

\* client.Do returns: an error, or a response whose body is still to be read
Receive(w) ==
    /\ wpc[w] = "inflight"
    /\ \E x \in ProbeOutcomes(env, session.client, cfg.URL, methods[w]) :
          /\ wres' = [wres EXCEPT ![w] = x]
          /\ wpc' = [wpc EXCEPT ![w] = IF x.err # "" THEN "lock" ELSE "readBody"]
          /\ stdout' = stdout \cup
                 (IF x.err # "" THEN Log(cfg, "DEBUG", "Request failed for method")
                  ELSE {})
    /\ UNCHANGED <<cfg, env, pc, err, optionsMethods, optionsErr, discoverySent,
                   catalog, methods, spawned, semaphore, mutexHolder, attempts,
                   results>>
    /\ UNCHANGED <<outer, wire>>

\* io.ReadAll(io.LimitReader(resp.Body, 1024*1024)): body and err; an error
\* is logged and the part read is kept
ReadBody(w) ==
    /\ wpc[w] = "readBody"
    /\ \E b \in BodyReads(env, wres[w]) :
          /\ wres' = [wres EXCEPT ![w].read = b.read, ![w].readErr = b.readErr]
          /\ stdout' = stdout \cup
                 (IF b.readErr # ""
                  THEN Log(cfg, "DEBUG", "Failed to read response body for method")
                  ELSE {})
    /\ wpc' = [wpc EXCEPT ![w] = "lock"]
    /\ UNCHANGED <<cfg, env, pc, err, optionsMethods, optionsErr, discoverySent,
                   catalog, methods, spawned, semaphore, mutexHolder, attempts,
                   results>>
    /\ UNCHANGED <<outer, wire>>

\* faulty variant of Lock: the lock is taken whether or not it is held
LockNoExclusion(w) ==
    /\ wpc[w] = "lock"
    /\ mutexHolder' = w
    /\ wpc' = [wpc EXCEPT ![w] = "write"]
    /\ UNCHANGED <<cfg, env, pc, err, optionsMethods, optionsErr, discoverySent,
                   catalog, methods, spawned, semaphore, wres, attempts, results>>
    /\ UNCHANGED <<outer, wire, stdout>>

\* mutex.Lock(): blocks while another goroutine holds the mutex
Lock(w) ==
    /\ wpc[w] = "lock"
    /\ mutexHolder = 0
    /\ mutexHolder' = w
    /\ wpc' = [wpc EXCEPT ![w] = "write"]
    /\ UNCHANGED <<cfg, env, pc, err, optionsMethods, optionsErr, discoverySent,
                   catalog, methods, spawned, semaphore, wres, attempts, results>>
    /\ UNCHANGED <<outer, wire, stdout>>

\* results[method] = Result{...}
Write(w) ==
    /\ wpc[w] = "write"
    /\ results' = MapPut(results, methods[w], ResultOf(wres[w]))
    /\ wpc' = [wpc EXCEPT ![w] = "unlock"]
    /\ UNCHANGED <<cfg, env, pc, err, optionsMethods, optionsErr, discoverySent,
                   catalog, methods, spawned, semaphore, mutexHolder, wres, attempts>>
    /\ UNCHANGED <<outer, wire, stdout>>

\* mutex.Unlock() and the return of testMethod
Unlock(w) ==
    /\ wpc[w] = "unlock"
    /\ mutexHolder' = 0
    /\ wpc' = [wpc EXCEPT ![w] = "release"]
    /\ UNCHANGED <<cfg, env, pc, err, optionsMethods, optionsErr, discoverySent,
                   catalog, methods, spawned, semaphore, wres, attempts, results>>
    /\ UNCHANGED <<outer, wire, stdout>>

\* the deferred func() { <-semaphore }()
Release(w) ==
    /\ wpc[w] = "release"
    /\ semaphore' = semaphore - 1
    /\ wpc' = [wpc EXCEPT ![w] = "wgDone"]
    /\ UNCHANGED <<cfg, env, pc, err, optionsMethods, optionsErr, discoverySent,
                   catalog, methods, spawned, mutexHolder, wres, attempts, results>>
    /\ UNCHANGED <<outer, wire, stdout>>

\* the deferred wg.Done()
Done(w) ==
    /\ wpc[w] = "wgDone"
    /\ wpc' = [wpc EXCEPT ![w] = "done"]
    /\ UNCHANGED <<cfg, env, pc, err, optionsMethods, optionsErr, discoverySent,
                   catalog, methods, spawned, semaphore, mutexHolder, wres, attempts,
                   results>>
    /\ UNCHANGED <<outer, wire, stdout>>

\* faulty variant of Wait: wg.Wait returns when the loop is over
WaitNoJoin ==
    /\ pc = "dispatch"
    /\ spawned = Len(methods)
    /\ pc' = "report"
    /\ UNCHANGED <<cfg, env, err, optionsMethods, optionsErr, discoverySent, catalog,
                   methods, spawned, wpc, semaphore, mutexHolder, wres, attempts,
                   results>>
    /\ UNCHANGED <<outer, wire, stdout>>

\* wg.Wait() returns: the loop is over and every started worker called wg.Done
Wait ==
    /\ pc = "dispatch"
    /\ spawned = Len(methods)
    /\ \A w \in Workers : wpc[w] = "done"
    /\ pc' = "report"
    /\ UNCHANGED <<cfg, env, err, optionsMethods, optionsErr, discoverySent, catalog,
                   methods, spawned, wpc, semaphore, mutexHolder, wres, attempts,
                   results>>
    /\ UNCHANGED <<outer, wire, stdout>>

\* the keys of map m in ascending order: the loop over the map and sort.Strings
SortedKeys(m) ==
    LET Rank(k) == Cardinality({j \in DOMAIN m : StrLess(j, k)}) + 1
    IN  [i \in 1..Cardinality(DOMAIN m) |-> CHOOSE k \in DOMAIN m : Rank(k) = i]

\* runSingleProbe after wg.Wait: the sorted method names are collected from the
\* map and, unless quiet, printResults prints the table
Report ==
    /\ pc = "report"
    /\ keys' = SortedKeys(results)
    /\ stdout' = stdout \cup
           (IF ~cfg.Quiet THEN {[level |-> "TABLE", msg |-> "METHOD STATUS LENGTH REASON"]}
            ELSE {})
    /\ pc' = "export"
    /\ UNCHANGED <<cli, cfg, env, err, urls, attempted, returned, session,
                   optionsMethods, optionsErr, discoverySent, catalog, methods,
                   spawned, wpc, semaphore, mutexHolder, wres, attempts, results,
                   wire, stderr, exit, files, exports>>

\* faulty variant of Export: the entries of the map are added to the content
\* the JSON file has
ExportMerges ==
    /\ pc = "export"
    /\ IF cfg.JSONFile = ""
       THEN UNCHANGED <<err, files, exports, stdout>>
       ELSE IF env.jsonWritable
       THEN /\ files' = MapPut(files, cfg.JSONFile,
                          IF cfg.JSONFile \in DOMAIN files
                          THEN [k \in DOMAIN files[cfg.JSONFile] \cup DOMAIN results |->
                                   IF k \in DOMAIN results THEN results[k]
                                   ELSE files[cfg.JSONFile][k]]
                          ELSE results)
            /\ exports' = Append(exports, results)
            /\ stdout' = stdout \cup Log(cfg, "+", "Results exported to")
            /\ UNCHANGED err
       ELSE /\ err' = "failed to export results to JSON"
            /\ UNCHANGED <<files, exports, stdout>>
    /\ pc' = "returned"
    /\ UNCHANGED <<cli, cfg, env, urls, attempted, returned, session,
                   optionsMethods, optionsErr, discoverySent, catalog, methods,
                   spawned, wpc, semaphore, mutexHolder, wres, attempts, results,
                   keys, wire, stderr, exit>>

\* the end of runSingleProbe: exportToJSON writes the map to the JSON file when
\* one is configured; the call returns the error of the write, or nil
Export ==
    /\ pc = "export"
    /\ IF cfg.JSONFile = ""
       THEN UNCHANGED <<err, files, exports, stdout>>
       ELSE IF env.jsonWritable
       THEN /\ files' = MapPut(files, cfg.JSONFile, results)
            /\ exports' = Append(exports, results)
            /\ stdout' = stdout \cup Log(cfg, "+", "Results exported to")
            /\ UNCHANGED err
       ELSE /\ err' = "failed to export results to JSON"
            /\ UNCHANGED <<files, exports, stdout>>
    /\ pc' = "returned"
    /\ UNCHANGED <<cli, cfg, env, urls, attempted, returned, session,
                   optionsMethods, optionsErr, discoverySent, catalog, methods,
                   spawned, wpc, semaphore, mutexHolder, wres, attempts, results,
                   keys, wire, stderr, exit>>

-----------------------------------------------------------------------------
(* Run and main *)

\* main after app.Execute returned e: the message on stderr and the exit code
ExitMain(e) ==
    /\ stderr' = IF e # "" THEN Append(stderr, e) ELSE stderr
    /\ exit' = IF e # "" THEN 1 ELSE 0
    /\ pc' = "exited"

\* Run up to the first call of runSingleProbe: with an input file its lines
\* are read, and a file that cannot be read ends the process; without one
\* runSingleProbe is called with the configuration
RunEntry ==
    /\ pc = "run"
    /\ stdout' = stdout \cup Log(cfg, "*", "Starting HTTP verb enumerating and tampering")
    /\ IF cfg.InputFile = ""
       THEN /\ attempted' = Append(attempted, cfg.URL)
            /\ pc' = "start"
            /\ UNCHANGED <<urls, stderr, exit>>
       ELSE IF ~env.inputFile.readable
       THEN /\ ExitMain("failed to read URLs from file")
            /\ UNCHANGED <<urls, attempted>>
       ELSE /\ urls' = ReadLines(env.inputFile.lines)
            /\ pc' = "loop"
            /\ UNCHANGED <<attempted, stderr, exit>>
    /\ UNCHANGED <<cli, cfg, env, err, returned, session, optionsMethods, optionsErr,
                   discoverySent, catalog, methods, spawned, wpc, semaphore,
                   mutexHolder, wres, attempts, results, keys, wire, files, exports>>

\* the loop of Run over urls: runSingleProbe is called with a copy of the
\* configuration that holds the next URL (readLinesFromFile yields no empty
\* line); after the last URL Run returns nil
LoopNext ==
    /\ pc = "loop"
    /\ IF Len(attempted) < Len(urls)
       THEN LET targetURL == urls[Len(attempted) + 1]
            IN  /\ stdout' = stdout \cup Log(cfg, "*", "Testing URL")
                /\ cfg' = [cfg EXCEPT !.URL = targetURL]
                /\ attempted' = Append(attempted, targetURL)
                /\ err' = ""
                /\ discoverySent' = 0
                /\ wire' = {}
                /\ pc' = "start"
                /\ UNCHANGED <<stderr, exit>>
       ELSE /\ ExitMain("")
            /\ UNCHANGED <<cfg, attempted, err, discoverySent, wire, stdout>>
    /\ UNCHANGED <<cli, env, urls, returned, session, optionsMethods, optionsErr,
                   catalog, methods, spawned, wpc, semaphore, mutexHolder, wres,
                   attempts, results, keys, files, exports>>

\* faulty variant of Return: the loop of Run returns the error of a call
ReturnStopsLoop ==
    /\ pc = "returned"
    /\ returned' = Append(returned, err)
    /\ IF cfg.InputFile = "" \/ err # ""
       THEN /\ ExitMain(err)
            /\ UNCHANGED stdout
       ELSE /\ pc' = "loop"
            /\ UNCHANGED <<stdout, stderr, exit>>
    /\ UNCHANGED <<cli, cfg, env, err, urls, attempted, session, optionsMethods,
                   optionsErr, discoverySent, catalog, methods, spawned, wpc,
                   semaphore, mutexHolder, wres, attempts, results, keys, wire,
                   files, exports>>

\* runSingleProbe returns to Run: without input file Run returns its error to
\* main; in the loop an error is logged and the loop goes on
Return ==
    /\ pc = "returned"
    /\ returned' = Append(returned, err)
    /\ IF cfg.InputFile = ""
       THEN /\ ExitMain(err)
            /\ UNCHANGED stdout
       ELSE /\ stdout' = stdout \cup
                   (IF err # "" THEN Log(cfg, "!", "Error processing") ELSE {})
            /\ pc' = "loop"
            /\ UNCHANGED <<stderr, exit>>
    /\ UNCHANGED <<cli, cfg, env, err, urls, attempted, session, optionsMethods,
                   optionsErr, discoverySent, catalog, methods, spawned, wpc,
                   semaphore, mutexHolder, wres, attempts, results, keys, wire,
                   files, exports>>

Next ==
    \/ RunEntry \/ LoopNext \/ Return
    \/ Start \/ ReadWordlist \/ Discover \/ Filter
    \/ Spawn \/ Wait \/ Report \/ Export
    \/ \E w \in Workers : Acquire(w)
    \/ \E w \in Workers : SendRequest(w)
    \/ \E w \in Workers : Receive(w)
    \/ \E w \in Workers : ReadBody(w)
    \/ \E w \in Workers : Lock(w)
    \/ \E w \in Workers : Write(w)
    \/ \E w \in Workers : Unlock(w)
    \/ \E w \in Workers : Release(w)
    \/ \E w \in Workers : Done(w)

-----------------------------------------------------------------------------
(* Inputs of the run specification *)

\* wordlist files of the runs: none readable, and one with a dangerous method
\* in lower case between blanks, a comment and a line that is no method token
RunWordlists ==
    {NoFile,
     [readable |-> TRUE,
      lines |-> <<<<32, 112, 117, 116, 32>>, <<35, 99>>, <<120, 32, 121>>>>]}

\* Allow headers of the runs: none, and "GET, patch"
RunAllows ==
    {<<>>, Join(<<GET, <<32, 112, 97, 116, 99, 104>>>>, 44)}

RunConfigs ==
    [URL : {URLBare, URLEmpty, URLBad}, SafeOnly : BOOLEAN,
     Wordlist : {"", "methods.txt"}, Threads : (0..MaxThreads) \cup {-1}]

RunEnvs ==
    [wordlist : RunWordlists, target : {"up", "down"},
     optStatus : {200, 404}, allow : RunAllows]

\* the runs of one URL that exercise the dispatch loop: every combination of
\* URL, safe mode, wordlist, concurrency limit and target
DispatchRuns ==
    {[f |-> DefaultFlags, c |-> With(DefaultConfig, c), e |-> With(DefaultEnv, e)] :
        c \in RunConfigs,
        e \in {x \in RunEnvs :
                  /\ x.target = "down" => x.allow = <<>> /\ x.optStatus = 404
                  /\ x.optStatus = 404 => x.allow = <<>>}}

\* "://p" and "http://p"
ProxyBad  == SchemeSep \o <<112>>
ProxyGood == HTTPPrefix \o <<112>>

\* "User-Agent: x", "x-a: 1", "h.txt", "c.txt", "a=1; b=2", "x"
HeaderUA   == <<85, 115, 101, 114, 45, 65, 103, 101, 110, 116, 58, 32, 120>>
HeaderXA   == <<120, 45, 97, 58, 32, 49>>
HeaderFile == <<104, 46, 116, 120, 116>>
CookieFile == <<99, 46, 116, 120, 116>>
CookiePair == <<97, 61, 49, 59, 32, 98, 61, 50>>
AgentX     == <<120>>

\* the files of the option runs: a header file that can be read, a cookie file
\* that cannot
OptionFiles ==
    [p \in {HeaderFile, CookieFile} |->
        IF p = HeaderFile THEN [readable |-> TRUE, lines |-> <<HeaderXA, <<35, 99>>>>]
        ELSE NoFile]

\* a safe-only run of one slot against the test server, the base of the
\* option runs
Option(f, c, e) ==
    [f |-> With(DefaultFlags, f),
     c |-> With(With(DefaultConfig, [SafeOnly |-> TRUE]), c),
     e |-> With(DefaultEnv, e)]

\* the runs that exercise the options one group at a time: output control,
\* client construction, request customization, JSON export, and the runs
\* against a server with long bodies
OptionRuns ==
    {Option(<<>>, c, e) :
        c \in [Verbose : BOOLEAN, Quiet : BOOLEAN, URL : {URLBare, URLScheme},
               SafeOnly : BOOLEAN],
        e \in [optStatus : {200}, allow : RunAllows]}
    \cup
    {Option(<<>>, c, e) :
        c \in [FollowRedir : BOOLEAN, Proxy : {<<>>, ProxyGood, ProxyBad},
               Wordlist : {"", "methods.txt"}],
        e \in [server : {"mock", "redirect"}]}
    \cup
    {Option(f, c, [files |-> OptionFiles]) :
        f \in [userAgent : {<<>>, AgentX}],
        c \in [Headers : {<<>>, <<HeaderUA>>, <<HeaderFile, HeaderXA>>},
               Cookies : {<<>>, CookiePair, CookieFile},
               CookieJar : {"", "jar.txt"}]}
    \cup
    {Option(<<>>, c, e) :
        c \in [JSONFile : {"", "out.json"}, Quiet : BOOLEAN, Verbose : BOOLEAN],
        e \in [jsonWritable : BOOLEAN]}
    \cup
    {Option(<<>>, c, [server |-> "big"]) : c \in [Verbose : BOOLEAN]}

\* input files of the runs over several URLs: none readable, an empty one,
\* one with " t ", a comment and "http://t", and one with "http://t" and a
\* URL no request can be built for
InputFiles ==
    {NoFile, [readable |-> TRUE, lines |-> <<>>],
     [readable |-> TRUE, lines |-> <<<<32, 116, 32>>, <<35, 99>>, URLScheme>>],
     [readable |-> TRUE, lines |-> <<URLScheme, URLBad>>]}

\* the runs over the URLs of an input file
InputRuns ==
    {Option(<<>>, c, e) :
        c \in [InputFile : {"urls.txt"}, URL : {URLEmpty}, Proxy : {<<>>, ProxyBad},
               Threads : {-1, 0, 1}, JSONFile : {"", "out.json"}],
        e \in [inputFile : InputFiles, jsonWritable : BOOLEAN]}

Init ==
    \E r \in DispatchRuns \cup OptionRuns \cup InputRuns :
        \* without a wordlist option the file does not matter
        /\ r.c.Wordlist = "" => ~r.e.wordlist.readable
        \* only the URL "t" reaches the target
        /\ r.c.URL \in {URLEmpty, URLBad} /\ r.c.InputFile = "" => r.e.target = "down"
        /\ InitMain(r.f, r.c, r.e)

Spec == Init /\ [][Next]_vars

\* the safe-only runs without wordlist, Allow header, request customization
\* and verbose output, for the liveness properties
LiveInit ==
    /\ Init
    /\ cfg.SafeOnly /\ ~cfg.Verbose
    /\ cfg.Wordlist = "" /\ cfg.Headers = <<>> /\ cfg.Cookies = <<>>
    /\ env.allow = <<>> /\ env.optStatus = 404

\* the Go scheduler: a step that stays possible is eventually taken
LiveSpec == LiveInit /\ [][Next]_vars /\ WF_vars(Next)

-----------------------------------------------------------------------------
(* Claims *)

\* the dangerous methods as the README lists them
DangerousSet == {DELETE, PUT, PATCH, COPY, UNCHECKOUT}

\* workers that hold an admission slot: past the send on the channel and
\* before the deferred receive
Admitted ==
    {w \in Workers : wpc[w] \in {"testMethod", "inflight", "readBody", "lock",
                                 "write", "unlock", "release"}}

\* workers whose request is executing against the target
Executing == {w \in Workers : wpc[w] \in {"inflight", "readBody"}}

\* workers that stored their result
Stored == {w \in Workers : wpc[w] \in {"unlock", "release", "wgDone", "done"}}

\* C1: with concurrency limit N, in every reachable state at most N workers
\* hold an admission slot, hence at most N requests execute at once.
C1_ConcurrencyBound ==
    cfg.Threads >= 0 =>
        /\ Cardinality(Admitted) <= cfg.Threads
        /\ Cardinality(Executing) <= cfg.Threads
        /\ semaphore = Cardinality(Admitted)

\* C1 witness: the limit is reached while another worker waits for a slot
C1_Witness ==
    /\ cfg.Threads = 2
    /\ Cardinality(Executing) = 2
    /\ \E w \in Workers : wpc[w] = "acquire"

\* C2: after all workers have joined, the aggregate has exactly one entry for
\* every catalog method whose request could be constructed, whether its
\* exchange succeeded or failed, and no other key.
C2_AggregateComplete ==
    pc \in {"report", "returned"} /\ err = "" =>
        /\ DOMAIN results =
               {methods[w] : w \in {v \in Workers : NewRequestOK(methods[v], cfg.URL)}}
        /\ Cardinality(DOMAIN results) =
               Cardinality({v \in Workers : NewRequestOK(methods[v], cfg.URL)})
        /\ \A w \in Workers :
               NewRequestOK(methods[w], cfg.URL) =>
                   results[methods[w]] = ResultOf(wres[w])

\* C2 witness: joined, one method could not be constructed and is absent, one
\* exchange failed and one succeeded, both recorded
C2_Witness ==
    /\ pc = "report"
    /\ \E w \in Workers : ~ValidMethod(methods[w]) /\ methods[w] \notin DOMAIN results
    /\ \E k \in DOMAIN results : results[k].StatusCode = 0
    /\ \E k \in DOMAIN results : results[k].StatusCode = 200

\* C3 (as stated): for every concurrency limit N >= 0 the configuration
\* accepts, once the dispatch loop is entered and every exchange returns,
\* every worker is admitted and completes and wg.Wait returns.
C3_DispatchReturns == (pc = "dispatch") ~> (pc = "report")

\* C4: with safe-only enabled no worker is started for, no request is sent
\* with, and no aggregate key is, a method of the dangerous set, whether the
\* method came from the defaults, the wordlist or the Allow header.
C4_SafeOnlyExcludesDangerous ==
    cfg.SafeOnly =>
        /\ \A w \in Workers : ToUpper(TrimSpace(methods[w])) \notin DangerousSet
        /\ \A k \in DOMAIN results : k \notin DangerousSet

\* C4 witness: a safe-only run with " put " in the wordlist and " patch" in
\* the Allow header has joined with results
C4_Witness ==
    /\ cfg.SafeOnly
    /\ pc = "report"
    /\ PUT \in Range(catalog) /\ PATCH \in Range(catalog)
    /\ <<32, 112, 117, 116, 32>> \in Range(env.wordlist.lines)
    /\ Len(optionsMethods) > 0
    /\ DOMAIN results # {}

\* a is b with some entries removed, order kept
RECURSIVE IsSubsequence(_, _)
IsSubsequence(a, b) ==
    IF a = <<>> THEN TRUE
    ELSE IF b = <<>> THEN FALSE
    ELSE IF Head(a) = Head(b) THEN IsSubsequence(Tail(a), Tail(b))
    ELSE IsSubsequence(a, Tail(b))

\* C5: the safe-mode filter F yields a subsequence of the catalog C holding
\* exactly the members of C outside the dangerous set, and F(F(C)) = F(C).
C5_FilterAlgebra ==
    pc = "dispatch" /\ cfg.SafeOnly =>
        /\ IsSubsequence(methods, catalog)
        /\ Range(methods) = Range(catalog) \ DangerousSet
        /\ SafeFilter(methods) = methods

\* C5 witness: the filter removed a dangerous method that precedes a safe one
C5_Witness ==
    /\ pc = "dispatch" /\ cfg.SafeOnly
    /\ \E i, j \in 1..Len(catalog) :
           i < j /\ catalog[i] \in DangerousSet /\ catalog[j] \in Range(methods)

\* getMethods has returned a catalog
CatalogBuilt == pc \in {"filter", "dispatch", "panic", "report"}

\* C6: the catalog returned by getMethods is sorted ascending, has no empty
\* string and no two equal entries, and every entry is trimmed and uppercase.
C6_CatalogNormalized ==
    CatalogBuilt =>
        /\ \A i, j \in 1..Len(catalog) : i < j => StrLess(catalog[i], catalog[j])
        /\ \A i, j \in 1..Len(catalog) : i # j => catalog[i] # catalog[j]
        /\ \A i \in 1..Len(catalog) :
               /\ catalog[i] # <<>>
               /\ ~IsSpace(catalog[i][1]) /\ ~IsSpace(catalog[i][Len(catalog[i])])
               /\ \A k \in 1..Len(catalog[i]) : catalog[i][k] \notin 97..122

\* C6 witness: the catalog was built from a wordlist with " put " and a blank
\* line and from an Allow header with a blank and a lower-case token
C6_Witness ==
    /\ pc = "filter"
    /\ cfg.Wordlist # ""
    /\ {<<32, 112, 117, 116, 32>>, <<>>} \subseteq Range(env.wordlist.lines)
    /\ {<<>>, <<112, 97, 116, 99, 104>>} \subseteq Range(optionsMethods)

\* C7: for a readable wordlist the catalog holds the trimmed, uppercased form
\* of every non-empty, non-comment line and every default method, and no
\* entry that starts with '#', whether or not discovery succeeds.
C7_WordlistAndDefaults ==
    CatalogBuilt =>
        /\ \A d \in Range(DefaultMethods) : d \in Range(catalog)
        /\ cfg.Wordlist # "" =>
               \A l \in Range(env.wordlist.lines) :
                   TrimSpace(l) # <<>> /\ TrimSpace(l)[1] # 35 =>
                       ToUpper(TrimSpace(l)) \in Range(catalog)
        /\ \A i \in 1..Len(catalog) : catalog[i][1] # 35

\* C7 witness: a wordlist with a comment and a custom line was read and the
\* custom method is in the catalog, with discovery failed
C7_Witness ==
    /\ pc = "filter"
    /\ cfg.Wordlist # ""
    /\ env.wordlist.lines = <<<<35, 99>>, <<90, 97, 112>>>>
    /\ <<90, 65, 80>> \in Range(catalog)
    /\ optionsErr # ""

\* the discovery step failed: no URL, no request, a transport error, a status
\* other than 200, or no Allow header
DiscoveryFailed ==
    \/ cfg.URL = <<>> \/ ~URLParses(cfg.URL) \/ optionsErr # ""
    \/ env.optStatus # 200 \/ env.allow = <<>>

\* C8: when discovery fails getMethods returns no error and exactly the
\* catalog of the defaults and the wordlist, and the run goes on to dispatch;
\* a run that returned an error did so before the discovery step.
C8_DiscoveryFailureNonFatal ==
    /\ CatalogBuilt /\ DiscoveryFailed =>
           /\ err = ""
           /\ catalog = NormalizeMethods(WorkingList(cfg, env))
           /\ optionsMethods = <<>>
    /\ pc = "returned" /\ err # "" => discoverySent = 0 /\ optionsErr = ""

\* C8 witness: the target answered 404 with an Allow header, the wordlist
\* contributed, and the run reached the dispatch loop
C8_Witness ==
    /\ pc = "dispatch"
    /\ discoverySent = 1 /\ optionsErr = ""
    /\ env.optStatus = 404 /\ env.allow # <<>>
    /\ Len(catalog) > Len(DefaultMethods)

\* the discovery request was answered 200 with a non-empty Allow header
DiscoveryAnswered ==
    discoverySent = 1 /\ optionsErr = "" /\ env.optStatus = 200 /\ env.allow # <<>>

\* the normalized methods of the defaults and the wordlist
KnownWithoutDiscovery ==
    {ToUpper(TrimSpace(m)) : m \in Range(WorkingList(cfg, env))}

\* C9 (as stated): discovery contributes exactly when the status is 200 and
\* the Allow header non-empty, and then every comma-separated token of the
\* header, trimmed, is in the catalog; otherwise it contributes nothing.
C9_TrimmedTokensInCatalog ==
    CatalogBuilt =>
        /\ Len(optionsMethods) > 0 <=> DiscoveryAnswered
        /\ DiscoveryAnswered =>
               \A t \in Range(Split(env.allow, 44)) : TrimSpace(t) \in Range(catalog)
        /\ ~DiscoveryAnswered => Range(catalog) \subseteq KnownWithoutDiscovery

\* C9 (amended): discovery contributes exactly when the status is 200 and the
\* Allow header non-empty, and then every non-empty comma-separated token of
\* the header, trimmed and uppercased, is in the catalog; otherwise it
\* contributes nothing.
C9_NormalizedTokensInCatalog ==
    CatalogBuilt =>
        /\ Len(optionsMethods) > 0 <=> DiscoveryAnswered
        /\ DiscoveryAnswered =>
               \A t \in Range(Split(env.allow, 44)) :
                   TrimSpace(t) # <<>> => ToUpper(TrimSpace(t)) \in Range(catalog)
        /\ ~DiscoveryAnswered => Range(catalog) \subseteq KnownWithoutDiscovery

\* C9 witness: the Allow header "Foo, patch" put FOO and PATCH, known from no
\* other source, into the catalog
C9_Witness ==
    /\ pc = "filter"
    /\ DiscoveryAnswered
    /\ env.allow = <<70, 111, 111, 44, 32, 112, 97, 116, 99, 104>>
    /\ {<<70, 79, 79>>, PATCH} \subseteq Range(catalog) \ KnownWithoutDiscovery

\* C10: a method whose exchange failed in transport was attempted once and
\* has the entry status 0, length 0, reason = the error text, non-empty;
\* against a target that is down every method sent ends with such an entry.
C10_TransportFailureRecorded ==
    /\ \A w \in Workers : attempts[w] <= 1
    /\ \A w \in Stored :
           wres[w].err # "" =>
               /\ attempts[w] = 1
               /\ results[methods[w]] =
                      [StatusCode |-> 0, Length |-> 0, Reason |-> wres[w].err]
               /\ results[methods[w]].Reason # ""
    /\ pc = "report" /\ env.target = "down" =>
           \A w \in Workers :
               attempts[w] > 0 =>
                   /\ methods[w] \in DOMAIN results
                   /\ results[methods[w]].StatusCode = 0
                   /\ results[methods[w]].Length = 0
                   /\ results[methods[w]].Reason # ""

\* C10 witness: every method of a run against a target that is down was sent
\* once and the workers have joined
C10_Witness ==
    /\ pc = "report"
    /\ env.target = "down"
    /\ cfg.URL # <<>>
    /\ Workers # {}
    /\ \A w \in Workers : attempts[w] = 1

\* the run of the input file: Run was called with --input
MultiURL == cfg.InputFile # ""

\* a call of runSingleProbe returned an error, or the input file was unreadable
FatalErrorSeen ==
    \/ \E i \in 1..Len(returned) : returned[i] # ""
    \/ MultiURL /\ ~env.inputFile.readable

\* the conditions under which a call of runSingleProbe returns an error
ProxyInvalid == cfg.Proxy # <<>> /\ ~URLParses(cfg.Proxy)
OptionFileUnreadable ==
    \/ \E i \in 1..Len(cfg.Headers) :
           cfg.Headers[i] \in DOMAIN env.files /\ ~env.files[cfg.Headers[i]].readable
    \/ cfg.Cookies \in DOMAIN env.files /\ ~env.files[cfg.Cookies].readable
WordlistUnreadable == cfg.Wordlist # "" /\ ~env.wordlist.readable
ExportFails == cfg.JSONFile # "" /\ ~env.jsonWritable

IsPrefix(a, b) == Len(a) <= Len(b) /\ SubSeq(b, 1, Len(a)) = a

\* the URLs of the input file
FileURLs == ReadLines(env.inputFile.lines)

\* C12 (as stated): in a run over a readable input file, with a concurrency
\* limit N >= 0, every URL of the file is eventually attempted, one after
\* another in file order, whatever the earlier calls returned.
C12_EveryURLAttempted ==
    (pc = "run" /\ MultiURL /\ env.inputFile.readable /\ cfg.Threads >= 0)
        ~> (attempted = FileURLs)

\* the order of the calls in a run over an input file: the URLs attempted are
\* a start of the file's URLs, a call begins only after the one before it
\* returned, an error a call returned is logged unless quiet, and the loop
\* ends only after the last URL
C12_InFileOrder ==
    MultiURL /\ pc # "run" /\ env.inputFile.readable =>
        /\ IsPrefix(attempted, FileURLs)
        /\ Len(returned) \in {Len(attempted) - 1, Len(attempted)}
        /\ Len(returned) = Len(attempted) <=> pc \in {"loop", "exited"}
        /\ pc = "loop" /\ returned # <<>> /\ returned[Len(returned)] # ""
              /\ ~cfg.Quiet =>
               [level |-> "!", msg |-> "Error processing"] \in stdout
        /\ pc = "exited" => attempted = FileURLs

\* C13: when the proxy URL is invalid or the wordlist cannot be read, every
\* call of runSingleProbe returns an error, and no discovery request and no
\* probe was sent and no worker was started.
C13_FatalErrorBeforeAnyRequest ==
    ProxyInvalid \/ WordlistUnreadable =>
        /\ pc \in {"run", "loop", "start", "wordlist", "returned", "exited"}
        /\ pc = "wordlist" => ~ProxyInvalid
        /\ pc = "returned" => err # ""
        /\ \A i \in 1..Len(returned) : returned[i] # ""
        /\ discoverySent = 0 /\ wire = {}
        /\ spawned = 0 /\ wpc = <<>> /\ attempts = <<>>
        /\ results = EmptyMap

\* C13 witness: a call with a valid client returned the error of the
\* unreadable wordlist
C13_Witness ==
    /\ pc = "returned"
    /\ WordlistUnreadable /\ ~ProxyInvalid
    /\ session.client.Proxy = ProxyGood
    /\ err = "failed to get methods: failed to read wordlist"

\* a step of the reporting code that reads the aggregate: the collection of
\* the keys with the table, or the JSON export
ReadStep == pc \in {"report", "export"} /\ pc' # pc

\* C14: reporting reads the aggregate only after every worker has joined, and
\* from the first read to the return of the call the aggregate is not
\* written.
C14_ReadsAfterJoin ==
    [][/\ ReadStep => \A w \in Workers : wpc[w] = "done"
       /\ pc \in {"report", "export", "returned"} => results' = results]_vars

\* C14 witness: the table was printed and the JSON file written from an
\* aggregate of two entries
C14_Witness ==
    /\ pc = "returned" /\ err = ""
    /\ Len(keys) = 2
    /\ [level |-> "TABLE", msg |-> "METHOD STATUS LENGTH REASON"] \in stdout
    /\ cfg.JSONFile \in DOMAIN files
    /\ files[cfg.JSONFile] = results

\* C15 (as stated): when --user-agent is given with value S, every request of
\* the run, discovery and probes, carries the User-Agent S.
C15_UserAgentFlagSent ==
    cli.userAgent # <<>> => \A q \in wire : q.ua = cli.userAgent

\* the cookies the answers to the finished probes set
CookiesReceived ==
    {wres[w].setCookie : w \in {v \in Workers : wpc[v] = "done" /\ wres[v].err = ""}}

\* C16 (as stated): when --cookie-jar names a file, the cookies received
\* during the run are in that file when the run ends.
C16_CookieJarWritten ==
    pc = "exited" /\ cfg.CookieJar # "" /\ CookiesReceived # {} =>
        cfg.CookieJar \in DOMAIN files

\* C17 (as stated): with quiet enabled the run prints nothing, no log line of
\* any level and no results table, whatever the value of verbose.
C17_QuietPrintsNothing == cfg.Quiet => stdout = {}

\* the URL the current call of runSingleProbe was given
TargetURL == attempted[Len(attempted)]

\* C18: every request of a call, discovery and probes, is sent to "https://"
\* followed by the target URL if that URL contains no "://", and to the
\* target URL unchanged if it contains one.
C18_RequestURL ==
    attempted # <<>> =>
        \A q \in wire :
            q.url = IF Contains(TargetURL, SchemeSep) THEN TargetURL
                    ELSE HTTPSPrefix \o TargetURL

\* C18 witness: the discovery request and a probe of a call for "t" went to
\* "https://t"
C18_Witness ==
    /\ attempted = <<URLBare>>
    /\ \E q \in wire : q.discovery /\ q.url = HTTPSPrefix \o URLBare
    /\ \E q \in wire : ~q.discovery /\ q.url = HTTPSPrefix \o URLBare

\* the client of the current call is built
ClientBuilt == pc \in {"wordlist", "options", "filter", "dispatch", "report", "export"}

\* C19: the redirect hook of the client is set exactly when redirect-following
\* is disabled; with it disabled, a method the server answers with a 302 is
\* recorded with status 302 after exactly one request.
C19_RedirectNotFollowed ==
    /\ ClientBuilt => (session.client.CheckRedirect <=> ~cfg.FollowRedir)
    /\ ~cfg.FollowRedir /\ env.server = "redirect" =>
           \A w \in Stored :
               wres[w].err = "" =>
                   /\ results[methods[w]].StatusCode = 302
                   /\ results[methods[w]].Reason = "302 Found"
                   /\ wres[w].hops = 1 /\ attempts[w] = 1
    /\ \A w \in Stored :
           wres[w].err = "" /\ wres[w].status \in 300..399 =>
               ~cfg.FollowRedir /\ results[methods[w]].StatusCode = wres[w].status

\* C19 witness: with redirect-following disabled every probe of a run against
\* a redirecting server is recorded with 302
C19_Witness ==
    /\ pc = "report"
    /\ ~cfg.FollowRedir /\ env.server = "redirect"
    /\ session.client.CheckRedirect
    /\ DOMAIN results # {}
    /\ \A k \in DOMAIN results : results[k].StatusCode = 302

\* the pieces of a header flag: the trimmed parts between commas, or the flag
HeaderPieces(flag) ==
    IF \E i \in 1..Len(flag) : flag[i] = 44
    THEN [i \in 1..Len(Split(flag, 44)) |-> TrimSpace(Split(flag, 44)[i])]
    ELSE <<flag>>

\* the 'Name: Value' tokens of a list of header flags, in input order
RECURSIVE HeaderTokens(_)
HeaderTokens(flags) ==
    IF flags = <<>> THEN <<>>
    ELSE HeaderPieces(Head(flags)) \o HeaderTokens(Tail(flags))

HasColon(t) == \E i \in 1..Len(t) : t[i] = 58
FirstColon(t) == CHOOSE i \in 1..Len(t) : t[i] = 58 /\ \A j \in 1..(i - 1) : t[j] # 58
TokenName(t) == TrimSpace(SubSeq(t, 1, FirstColon(t) - 1))
TokenValue(t) == TrimSpace(SubSeq(t, FirstColon(t) + 1, Len(t)))

\* the values of the tokens whose name, seen through Key, is n, in input order
ValuesUnder(tokens, n, Key(_)) ==
    LET Match(t) == HasColon(t) /\ Key(TokenName(t)) = n
        sel == SelectSeq(tokens, Match)
    IN  [i \in 1..Len(sel) |-> TokenValue(sel[i])]

\* the mapping h holds exactly the values of the tokens under their names
\* seen through Key
HoldsTokens(h, tokens, Key(_)) ==
    /\ DOMAIN h = {Key(TokenName(tokens[i])) :
                      i \in {j \in 1..Len(tokens) : HasColon(tokens[j])}}
    /\ \A n \in DOMAIN h : h[n] = ValuesUnder(tokens, n, Key)

SameName(n) == n

\* C20 (as stated): for header flags that are no files parseHeaders returns no
\* error and a mapping that holds, for each token with a colon, the trimmed
\* value appended under the trimmed name in input order; a token without a
\* colon adds nothing.
C20_HeadersUnderTrimmedName ==
    pc # "start" =>
        /\ pc = "wordlist" /\ err = ""
        /\ HoldsTokens(session.headers, HeaderTokens(cfg.Headers), SameName)

\* C20 (amended): for header flags that are no files parseHeaders returns no
\* error and a mapping that holds, for each token with a colon, the trimmed
\* value appended, in input order, under the canonical MIME form of the
\* trimmed name (first letter and each letter after '-' in upper case, the
\* other letters in lower case; a name that is no token unchanged), so that
\* names that differ only in case share one entry that keeps all their
\* values; a token without a colon adds nothing.
C20_HeadersUnderCanonicalName ==
    pc # "start" =>
        /\ pc = "wordlist" /\ err = ""
        /\ HoldsTokens(session.headers, HeaderTokens(cfg.Headers),
                       CanonicalMIMEHeaderKey)

\* C20 witness: two flags gave three tokens, one without colon and two whose
\* names differ in case, and the mapping holds both values under one name
C20_Witness ==
    /\ pc = "wordlist"
    /\ Len(cfg.Headers) = 2
    /\ \E i \in 1..Len(HeaderTokens(cfg.Headers)) :
           ~HasColon(HeaderTokens(cfg.Headers)[i])
    /\ \E n \in DOMAIN session.headers : Len(session.headers[n]) = 2
    /\ \E i \in 1..Len(HeaderTokens(cfg.Headers)) :
           /\ HasColon(HeaderTokens(cfg.Headers)[i])
           /\ TokenName(HeaderTokens(cfg.Headers)[i]) \notin DOMAIN session.headers

\* the warning getMethods logs when getMethodsFromOptions returned an error
DiscoveryWarning ==
    [level |-> "-", msg |-> "Failed to get methods from OPTIONS request"]

\* C21 (as stated): when the run is not quiet, every kind of discovery
\* failure, a network error, a status other than 200 and a missing Allow
\* header, makes getMethods print a warning.
C21_DiscoveryFailureWarned ==
    CatalogBuilt /\ ~cfg.Quiet /\ DiscoveryFailed => DiscoveryWarning \in stdout

\* what holds of the warning: getMethods prints it exactly when
\* getMethodsFromOptions returned an error, that is for a missing URL, a
\* request that cannot be built and a transport error, and for no answer of
\* the target
C21_WarningOnlyForErrors ==
    CatalogBuilt /\ ~cfg.Quiet =>
        /\ DiscoveryWarning \in stdout <=> optionsErr # ""
        /\ optionsErr = "" => discoverySent = 1 /\ env.target = "up"

\* workers between mutex.Lock() and mutex.Unlock()
InCritical == {w \in Workers : wpc[w] \in {"write", "unlock"}}

\* C22: every write to the aggregate is made by a worker that holds the
\* mutex, at most one worker holds the mutex at a time, and no worker holds
\* it while its exchange or its body read is in progress: the lock is held
\* around the insert only.
C22_MutexGuardsWrites ==
    /\ [](/\ Cardinality(InCritical) <= 1
          /\ \A w \in InCritical : mutexHolder = w
          /\ InCritical = {} => mutexHolder = 0
          /\ \A w \in Executing : mutexHolder # w)
    /\ [][pc = "dispatch" /\ results' # results =>
             \E w \in Workers :
                 /\ wpc[w] = "write" /\ mutexHolder = w /\ mutexHolder' = w
                 /\ wpc'[w] = "unlock"
                 /\ \A k \in DOMAIN results : results'[k] = results[k]
                 /\ DOMAIN results' = DOMAIN results \cup {methods[w]}]_vars

\* C22 witness: a worker is about to insert with the mutex held while another
\* worker, its exchange over, waits for the mutex
C22_Witness ==
    \E w, v \in Workers :
        /\ wpc[w] = "write" /\ mutexHolder = w
        /\ wpc[v] = "lock"
        /\ results # EmptyMap

\* every worker of the dispatch has called wg.Done
AllJoined == spawned = Len(methods) /\ \A w \in Workers : wpc[w] = "done"

\* C23: the number of held admission slots equals the number of workers
\* between their acquire and their release in every state, whatever path a
\* task takes (request construction failure, transport failure, success), a
\* worker is done only after its release, and no slot is held once all
\* workers have joined.
C23_SlotsReleasedOnEveryPath ==
    /\ semaphore = Cardinality(Admitted)
    /\ semaphore >= 0
    /\ AllJoined => semaphore = 0
    /\ pc \in {"report", "export", "returned"} /\ err = "" =>
           AllJoined /\ semaphore = 0

\* C23 witness: all workers have joined and no slot is held after one task
\* ended at the request construction, one with a transport failure and one
\* with a response
C23_Witness ==
    /\ pc = "report" /\ semaphore = 0 /\ cfg.Threads > 0
    /\ \E w \in Workers : wpc[w] = "done" /\ attempts[w] = 0
    /\ \E w \in Workers : wpc[w] = "done" /\ attempts[w] = 1 /\ wres[w].err # ""
    /\ \E w \in Workers : wpc[w] = "done" /\ attempts[w] = 1 /\ wres[w].err = ""

\* the workers of the dispatch that were started for method k
WorkersOf(k) == {w \in Workers : methods[w] = k}

\* C24: during one dispatch every key of the aggregate was written by the one
\* worker started for that method, no two workers are started for the same
\* method, a write adds a key that was absent, and an entry once written
\* keeps its value until the call returns.
C24_OneWritePerKey ==
    /\ [](/\ \A v, w \in Workers : v # w => methods[v] # methods[w]
          /\ \A k \in DOMAIN results :
                 /\ Cardinality(WorkersOf(k)) = 1
                 /\ WorkersOf(k) \subseteq Stored)
    /\ [][/\ pc # "filter" =>
                 \A k \in DOMAIN results :
                     k \in DOMAIN results' /\ results'[k] = results[k]
          /\ \A w \in Workers :
                 wpc[w] = "write" /\ wpc'[w] # "write" =>
                     /\ methods[w] \notin DOMAIN results
                     /\ DOMAIN results' = DOMAIN results \cup {methods[w]}]_vars

\* C24 witness: the wordlist and the Allow header named methods the defaults
\* hold too, two workers have written their keys and a third is about to
C24_Witness ==
    /\ cfg.Wordlist # ""
    /\ <<32, 112, 117, 116, 32>> \in Range(env.wordlist.lines)
    /\ GET \in Range(optionsMethods)
    /\ Cardinality(DOMAIN results) = 2
    /\ \E w \in Workers : wpc[w] = "write"

\* workers whose exchange returned a response and whose result is stored
Answered == {w \in Stored : attempts[w] = 1 /\ wres[w].err = ""}

\* C25: for every exchange that returned a response whose body was read to
\* its end or to the cap, the recorded length is min(body size, 1048576) and
\* no error is recorded for a body longer than the cap; for every response the
\* recorded length is at most 1 MiB and at most the body size, and the
\* recorded status and reason are the response's.
C25_LengthCapped ==
    \A w \in Answered :
        LET r == results[methods[w]]
        IN  /\ r.StatusCode = wres[w].status /\ r.StatusCode # 0
            /\ r.Reason = wres[w].reason
            /\ r.Length <= BodyCap /\ r.Length <= wres[w].size
            /\ wres[w].readErr = "" =>
                   r.Length = IF wres[w].size < BodyCap THEN wres[w].size
                              ELSE BodyCap

\* C25 witness: a body one byte longer than the cap was read without error
\* and recorded with status 200 and length 1048576, and the call returned nil
C25_Witness ==
    /\ pc = "returned" /\ err = ""
    /\ \E w \in Answered :
           /\ wres[w].size > BodyCap /\ wres[w].readErr = ""
           /\ results[methods[w]] =
                  [StatusCode |-> 200, Length |-> 1048576, Reason |-> "200 OK"]

\* the warning of runSingleProbe's branch for a run without safe mode
DangerWarning ==
    [level |-> "-",
     msg |-> "Testing includes potentially dangerous HTTP methods (PUT, DELETE, etc.)"]

\* the safe-mode branch of the call is over
Filtered == pc \in {"dispatch", "panic", "report", "export"}

\* C26 (as stated): with safe-only disabled the catalog handed to dispatch is
\* the catalog getMethods returned, same members in the same order, and a
\* warning that dangerous methods are included is printed in that run.
C26_UnchangedAndWarned ==
    Filtered /\ ~cfg.SafeOnly => methods = catalog /\ DangerWarning \in stdout

\* C26 (amended): with safe-only disabled the catalog handed to dispatch is
\* the catalog getMethods returned, same members in the same order, and the
\* warning that dangerous methods are included is printed in that run exactly
\* when the run is not quiet; a safe-only run of one URL prints no such
\* warning.
C26_UnchangedAndWarnedUnlessQuiet ==
    /\ Filtered /\ ~cfg.SafeOnly =>
           /\ methods = catalog
           /\ DangerWarning \in stdout <=> ~cfg.Quiet
    /\ cfg.SafeOnly => DangerWarning \notin stdout

\* C26 witness: a run without safe mode and without quiet hands a catalog with
\* dangerous methods to dispatch after the warning; its workers have started
C26_Witness ==
    /\ pc = "dispatch" /\ ~cfg.SafeOnly /\ ~cfg.Quiet
    /\ {PUT, PATCH} \subseteq Range(methods)
    /\ methods = catalog
    /\ DangerWarning \in stdout
    /\ spawned = Len(methods)

\* the current call of runSingleProbe called getMethods and it returned
GetMethodsReturned ==
    \/ pc \in {"filter", "dispatch", "panic", "report", "export"}
    \/ pc = "returned" /\ err \in {"", "failed to get methods: failed to read wordlist",
                                   "failed to export results to JSON"}

\* http.NewRequest accepts the URL of the call for the discovery request
DiscoveryRequestBuilt == NewRequestOK(<<79, 80, 84, 73, 79, 78, 83>>, cfg.URL)

\* the steps of a call in their order: a discovery request is handed to the
\* client before any probe of the call, and a worker is started only in the
\* dispatch loop, after getMethods returned
DiscoveryPrecedesWorkers ==
    /\ discoverySent' = discoverySent + 1 => \A q \in wire : q.discovery
    /\ spawned' = spawned + 1 => pc = "dispatch" /\ GetMethodsReturned
    /\ \A q \in wire' \ wire : ~q.discovery => pc = "dispatch" /\ spawned > 0

\* C27 (as stated): in every call that reaches getMethods with a non-empty
\* URL exactly one discovery request is attempted, also when a wordlist is
\* configured, and it completes before the first probe worker is started.
C27_OneDiscoveryPerRun ==
    /\ [](GetMethodsReturned /\ cfg.URL # <<>> => discoverySent = 1)
    /\ [][DiscoveryPrecedesWorkers]_vars

\* C27 (amended): in every call whose getMethods gets past the wordlist (none
\* configured, or a readable one) with a non-empty URL that http.NewRequest
\* accepts, exactly one discovery request is handed to the client, also when a
\* wordlist is configured, and it completes before the first probe worker is
\* started; a call with an unreadable wordlist, an empty URL or a URL the
\* request cannot be built for sends none, and no call sends more than one.
C27_OneDiscoveryWhenRequestBuilt ==
    /\ [](/\ discoverySent \in {0, 1}
          /\ GetMethodsReturned =>
                 (discoverySent = 1 <=>
                      /\ cfg.URL # <<>> /\ DiscoveryRequestBuilt
                      /\ ~WordlistUnreadable))
    /\ [][DiscoveryPrecedesWorkers]_vars

\* C27 witness: a call with a readable wordlist sent its one discovery
\* request and has started its first worker, which has sent no probe yet
C27_Witness ==
    /\ pc = "dispatch" /\ spawned = 1
    /\ cfg.Wordlist # "" /\ env.wordlist.readable
    /\ discoverySent = 1
    /\ wire # {} /\ \A q \in wire : q.discovery

\* a run over an input file with a JSON output file
MultiURLExport == MultiURL /\ cfg.JSONFile # ""

\* the step of a call that writes the JSON file
ExportStep == pc = "export" /\ pc' = "returned" /\ cfg.JSONFile # "" /\ env.jsonWritable

\* C28: in a run over an input file with a JSON output file, the export of
\* each URL's call replaces the whole file with the aggregate of that call,
\* so the file holds the aggregate of the last call that exported and nothing
\* of the calls before it; a call whose export fails returns the export
\* error, which is logged, and the calls for the later URLs are made and the
\* process exits 0.
C28_LastExportWins ==
    /\ [](MultiURLExport =>
            /\ DOMAIN files \subseteq {cfg.JSONFile}
            /\ exports # <<>> <=> cfg.JSONFile \in DOMAIN files
            /\ exports # <<>> => files[cfg.JSONFile] = exports[Len(exports)]
            /\ pc = "exited" /\ exports # <<>> =>
                   /\ Len(exports) = Len(returned) /\ attempted = FileURLs
                   /\ files[cfg.JSONFile] = results
            /\ ~env.jsonWritable =>
                   /\ exports = <<>>
                   /\ pc = "loop" /\ returned # <<>> /\ ~ProxyInvalid =>
                          /\ returned[Len(returned)] = "failed to export results to JSON"
                          /\ [level |-> "!", msg |-> "Error processing"] \in stdout
                   /\ pc = "exited" /\ env.inputFile.readable =>
                          attempted = FileURLs /\ exit = 0)
    /\ [][ExportStep =>
              /\ files' = [f \in {cfg.JSONFile} |-> results]
              /\ exports' = Append(exports, results)
              /\ \A w \in Workers : wpc[w] = "done"]_vars

\* C28 witness: the run over two URLs has ended; both calls exported, the
\* first an aggregate with entries, the second an empty one, and the file
\* holds the second
C28_Witness ==
    /\ pc = "exited" /\ MultiURLExport
    /\ Len(exports) = 2
    /\ exports[1] # EmptyMap /\ exports[2] = EmptyMap
    /\ files[cfg.JSONFile] = EmptyMap

====
